---- MODULE Spec2Model ----
(***************************************************************************)
(* Load-declaration unification of Snowfakery                              *)
(* (snowfakery/cci_mapping_files/declaration_parser.py), the gathering of  *)
(* load-declaration files and the output-stream context manager            *)
(* (snowfakery/api.py), and the docs sample replacer                       *)
(* (tools/docs_samples.py).                                                *)
(*                                                                         *)
(* Python's None is the empty tuple <<>>, a present value v is <<v>>, so   *)
(* that 0 and "" stay different from None.  A dict is a function whose     *)
(* DOMAIN is its key set.                                                  *)
(***************************************************************************)
EXTENDS Integers, Sequences, FiniteSets, TLC

None == <<>>
Some(v) == <<v>>
EmptyDict == [x \in {} |-> x]

(***************************************************************************)
(* Bounds of the explored inputs                                           *)
(***************************************************************************)
MaxDecls == 2

Entities == {"Account", "Contact"}
PriorityChoices == {None, Some("low"), Some("medium"), Some("high")}
ApiChoices == {None, Some("rest"), Some("bulk")}
BatchSizeChoices == {None, Some(50)}
BulkModeChoices == {None, Some("serial")}
AnchorDateChoices == {None, Some("today")}
LoadAfterChoices == {None, Some("Account"), Some("User")}

(***************************************************************************)
(* class SObjectRuleDeclaration                                            *)
(***************************************************************************)
SObjectRuleDeclaration ==
    [sf_object : Entities, priority : PriorityChoices, api : ApiChoices,
     batch_size : BatchSizeChoices, bulk_mode : BulkModeChoices,
     anchor_date : AnchorDateChoices, load_after : LoadAfterChoices]

\* SObjectRuleDeclaration(sf_object=sobj): every other field at its default
NewDeclaration(sobj) ==
    [sf_object |-> sobj, priority |-> None, api |-> None, batch_size |-> None,
     bulk_mode |-> None, anchor_date |-> None, load_after |-> None]

PriorityValues == [low |-> 1, medium |-> 2, high |-> 3]

\* as priority_number, with an omitted priority weighed as the lowest tier
priority_number_DefaultLow(decl) ==
    IF decl.priority = None THEN 1 ELSE PriorityValues[decl.priority[1]]

priority_number(decl) ==
    IF decl.priority = None THEN 2 ELSE PriorityValues[decl.priority[1]]

ExportKeys == {"api", "bulk_mode", "batch_size", "anchor_date"}

\* as as_mapping, with load_after among the exported attributes
as_mapping_WithLoadAfter(decl) ==
    [k \in {kk \in ExportKeys \cup {"load_after"} : decl[kk] # None} |-> decl[k][1]]

as_mapping(decl) ==
    [k \in {kk \in ExportKeys : decl[kk] # None} |-> decl[k][1]]

(***************************************************************************)
(* class AtomicDecl, class MergeRules, MERGE_RULES                         *)
(***************************************************************************)
AtomicDecl(sf_object, key, value, priority, merge_rule) ==
    [sf_object |-> sf_object, key |-> key, value |-> value,
     priority |-> priority, merge_rule |-> merge_rule]

\* as use_highest_priority, with the incoming atom winning a tie
use_highest_priority_TieToNew(new_decl, existing_decl) ==
    IF existing_decl # None
    THEN IF new_decl.priority >= existing_decl[1].priority
         THEN new_decl
         ELSE existing_decl[1]
    ELSE new_decl

\* as use_highest_priority, with min in place of max
use_highest_priority_Lowest(new_decl, existing_decl) ==
    IF existing_decl # None
    THEN IF new_decl.priority < existing_decl[1].priority
         THEN new_decl
         ELSE existing_decl[1]
    ELSE new_decl

\* as use_highest_priority, with the incoming atom always winning
use_highest_priority_Newest(new_decl, existing_decl) == new_decl

\* max(existing_decl, new_decl, key=priority) keeps the first of equal maxima
use_highest_priority(new_decl, existing_decl) ==
    IF existing_decl # None
    THEN IF new_decl.priority > existing_decl[1].priority
         THEN new_decl
         ELSE existing_decl[1]
    ELSE new_decl

\* as append, skipping a value the list already holds
append_NoRepeats(new_decl, existing_decl) ==
    IF existing_decl # None
    THEN IF \E n \in 1..Len(existing_decl[1].value) :
                existing_decl[1].value[n] = new_decl.value
         THEN existing_decl[1]
         ELSE [existing_decl[1] EXCEPT !.value = Append(@, new_decl.value)]
    ELSE AtomicDecl(new_decl.sf_object, new_decl.key, <<new_decl.value>>,
                    new_decl.priority, new_decl.merge_rule)

\* as append, with entity and key swapped in the constructor call
append_SwappedFields(new_decl, existing_decl) ==
    IF existing_decl # None
    THEN [existing_decl[1] EXCEPT !.value = Append(@, new_decl.value)]
    ELSE AtomicDecl(new_decl.key, new_decl.sf_object, <<new_decl.value>>,
                    new_decl.priority, new_decl.merge_rule)

append(new_decl, existing_decl) ==
    IF existing_decl # None
    THEN [existing_decl[1] EXCEPT !.value = Append(@, new_decl.value)]
    ELSE AtomicDecl(new_decl.sf_object, new_decl.key, <<new_decl.value>>,
                    new_decl.priority, new_decl.merge_rule)

\* the registry, in the insertion order in which dict.items() walks it
MERGE_KEYS == <<"api", "bulk_mode", "batch_size", "anchor_date", "load_after">>

MERGE_RULES ==
    [key \in {MERGE_KEYS[n] : n \in 1..Len(MERGE_KEYS)} |->
        IF key = "load_after" THEN "append" ELSE "use_highest_priority"]

\* merge_rule(decl, previous_decl): the call through the stored callable
CallMergeRule(merge_rule, new_decl, existing_decl) ==
    IF merge_rule = "append"
    THEN append(new_decl, existing_decl)
    ELSE use_highest_priority(new_decl, existing_decl)

(***************************************************************************)
(* atomize_decls, merge_declarations, unify                                *)
(***************************************************************************)
\* the inner loop of atomize_decls for one declaration, from registry key n on
RECURSIVE AtomsFromKey(_, _)
\* as AtomsFromKey, testing `if val` where the code tests `if val is not None`
AtomsFromKey_Truthy(decl, n) ==
    IF n > Len(MERGE_KEYS) THEN <<>>
    ELSE LET key == MERGE_KEYS[n]
             val == decl[key]
             falsy == \/ val = None
                      \/ key = "batch_size" /\ val[1] = 0
                      \/ key = "anchor_date" /\ val[1] = ""
         IN IF ~falsy
            THEN <<AtomicDecl(decl.sf_object, key, val[1],
                              priority_number(decl), MERGE_RULES[key])>>
                 \o AtomsFromKey(decl, n + 1)
            ELSE AtomsFromKey(decl, n + 1)

AtomsFromKey(decl, n) ==
    IF n > Len(MERGE_KEYS) THEN <<>>
    ELSE LET key == MERGE_KEYS[n]
             val == decl[key]
         IN IF val # None
            THEN <<AtomicDecl(decl.sf_object, key, val[1],
                              priority_number(decl), MERGE_RULES[key])>>
                 \o AtomsFromKey(decl, n + 1)
            ELSE AtomsFromKey(decl, n + 1)

AtomsOfDecl(decl) == AtomsFromKey(decl, 1)

RECURSIVE atomize_decls(_)
atomize_decls(ds) ==
    IF ds = <<>> THEN <<>> ELSE AtomsOfDecl(Head(ds)) \o atomize_decls(Tail(ds))

\* as MergeAtom, storing a fresh dict for the entity on every atom
MergeAtom_FreshEntry(res, decl) ==
    LET sobject == decl.sf_object
        key == decl.key
        entry == IF sobject \in DOMAIN res THEN res[sobject] ELSE EmptyDict
        previous_decl == IF key \in DOMAIN entry THEN Some(entry[key]) ELSE None
        merged == CallMergeRule(decl.merge_rule, decl, previous_decl)
    IN (sobject :> (key :> merged)) @@ res

\* as MergeAtom, with a lookup in the defaultdict that files an empty entry
\* under the entity an accumulated value names
MergeAtom_TouchesNamedEntity(res, decl) ==
    LET sobject == decl.sf_object
        key == decl.key
        entry == IF sobject \in DOMAIN res THEN res[sobject] ELSE EmptyDict
        previous_decl == IF key \in DOMAIN entry THEN Some(entry[key]) ELSE None
        merged == CallMergeRule(decl.merge_rule, decl, previous_decl)
        touched == IF decl.merge_rule = "append" /\ decl.value \notin DOMAIN res
                   THEN (decl.value :> EmptyDict) @@ res
                   ELSE res
    IN (sobject :> ((key :> merged) @@ entry)) @@ touched

\* one iteration of the loop of merge_declarations
MergeAtom(res, decl) ==
    LET sobject == decl.sf_object
        key == decl.key
        entry == IF sobject \in DOMAIN res THEN res[sobject] ELSE EmptyDict
        previous_decl == IF key \in DOMAIN entry THEN Some(entry[key]) ELSE None
        merged == CallMergeRule(decl.merge_rule, decl, previous_decl)
    IN (sobject :> ((key :> merged) @@ entry)) @@ res

\* the loop of merge_declarations over the atoms still to come
RECURSIVE MergeFrom(_, _)
MergeFrom(res, atoms) ==
    IF atoms = <<>> THEN res ELSE MergeFrom(MergeAtom(res, Head(atoms)), Tail(atoms))

MergeAtoms(atoms) == MergeFrom(EmptyDict, atoms)

merge_declarations(ds) == MergeAtoms(atomize_decls(ds))

\* the assert of unify: every resolved entry is filed under its own key
AssemblyAssertHolds(res) ==
    \A sobj \in DOMAIN res : \A key \in DOMAIN res[sobj] : res[sobj][key].key = key

\* the loops of unify: one fresh declaration per entity, setattr per entry
Assemble(res) ==
    [sobj \in DOMAIN res |->
        [f \in DOMAIN NewDeclaration(sobj) |->
            IF f \in DOMAIN res[sobj]
            THEN Some(res[sobj][f].value)
            ELSE NewDeclaration(sobj)[f]]]

unify(ds) == Assemble(merge_declarations(ds))

(***************************************************************************)
(* unify with the lists of the accumulate strategy as objects              *)
(*                                                                         *)
(* heap is the sequence of the lists allocated so far, a list object is    *)
(* [ref |-> its position in heap], and list.append rewrites the heap in    *)
(* place, so that every holder of the reference sees the appended value.   *)
(***************************************************************************)
\* as appendH, with one list shared by every first value (a default list
\* bound once, when the function is defined)
appendH_SharedList(h, new_decl, existing_decl) ==
    IF existing_decl # None \/ h # <<>>
    THEN LET a == IF existing_decl # None THEN existing_decl[1].value.ref ELSE 1 IN
         [heap |-> [h EXCEPT ![a] = Append(@, new_decl.value)],
          atom |-> AtomicDecl(new_decl.sf_object, new_decl.key, [ref |-> a],
                              new_decl.priority, new_decl.merge_rule)]
    ELSE [heap |-> Append(h, <<new_decl.value>>),
          atom |-> AtomicDecl(new_decl.sf_object, new_decl.key, [ref |-> Len(h) + 1],
                              new_decl.priority, new_decl.merge_rule)]

\* MergeRules.append: existing_decl.value.append(...) in place, or a new list
appendH(h, new_decl, existing_decl) ==
    IF existing_decl # None
    THEN [heap |-> [h EXCEPT ![existing_decl[1].value.ref] = Append(@, new_decl.value)],
          atom |-> existing_decl[1]]
    ELSE [heap |-> Append(h, <<new_decl.value>>),
          atom |-> AtomicDecl(new_decl.sf_object, new_decl.key, [ref |-> Len(h) + 1],
                              new_decl.priority, new_decl.merge_rule)]

CallMergeRuleH(h, merge_rule, new_decl, existing_decl) ==
    IF merge_rule = "append"
    THEN appendH(h, new_decl, existing_decl)
    ELSE [heap |-> h, atom |-> use_highest_priority(new_decl, existing_decl)]

\* as MergeAtomH, with results keyed by attribute alone: the stored atom of
\* any entity is the previous one
MergeAtomH_KeyOnly(st, decl) ==
    LET sobject == decl.sf_object
        key == decl.key
        entry == IF sobject \in DOMAIN st.res THEN st.res[sobject] ELSE EmptyDict
        holders == {e \in DOMAIN st.res : key \in DOMAIN st.res[e]}
        previous_decl == IF holders # {}
                         THEN Some(st.res[CHOOSE e \in holders : TRUE][key])
                         ELSE None
        m == CallMergeRuleH(st.heap, decl.merge_rule, decl, previous_decl)
    IN [heap |-> m.heap, res |-> (sobject :> ((key :> m.atom) @@ entry)) @@ st.res]

\* one iteration of the loop of merge_declarations
MergeAtomH(st, decl) ==
    LET sobject == decl.sf_object
        key == decl.key
        entry == IF sobject \in DOMAIN st.res THEN st.res[sobject] ELSE EmptyDict
        previous_decl == IF key \in DOMAIN entry THEN Some(entry[key]) ELSE None
        m == CallMergeRuleH(st.heap, decl.merge_rule, decl, previous_decl)
    IN [heap |-> m.heap, res |-> (sobject :> ((key :> m.atom) @@ entry)) @@ st.res]

RECURSIVE MergeFromH(_, _)
MergeFromH(st, atoms) ==
    IF atoms = <<>> THEN st ELSE MergeFromH(MergeAtomH(st, Head(atoms)), Tail(atoms))

\* unify(ds) run on heap h: setattr stores the list itself, not a copy
unifyH(h, ds) ==
    LET st == MergeFromH([heap |-> h, res |-> EmptyDict], atomize_decls(ds)) IN
    IF AssemblyAssertHolds(st.res)
    THEN [raises |-> None, heap |-> st.heap, objs |-> Assemble(st.res)]
    ELSE [raises |-> Some("AssertionError"), heap |-> st.heap, objs |-> EmptyDict]

\* the lists a returned mapping refers to
ListsOf(mapping) ==
    {mapping[sobj].load_after[1].ref :
        sobj \in {e \in DOMAIN mapping : mapping[e].load_after # None}}

\* what a reader of the returned mapping sees on heap h
Deref(h, mapping) ==
    [sobj \in DOMAIN mapping |->
        IF mapping[sobj].load_after # None
        THEN [mapping[sobj] EXCEPT !.load_after = Some(h[mapping[sobj].load_after[1].ref])]
        ELSE mapping[sobj]]

(***************************************************************************)
(* SObjectRuleDeclarationFile.parse_from_yaml and gather_declarations      *)
(*                                                                         *)
(* A validated load-declaration file is the sequence of its items, each a  *)
(* ChannelDeclarationList or an SObjectRuleDeclaration; a Python list is   *)
(* [cls |-> "list", items |-> its elements].                               *)
(***************************************************************************)
MaxItems == 2
MaxFiles == 2

FileDeclarations ==
    {[NewDeclaration("Account") EXCEPT !.api = Some("rest")],
     [NewDeclaration("Contact") EXCEPT !.load_after = Some("Account")]}

FileItems ==
    {[cls |-> "SObjectRuleDeclaration", decl |-> d] : d \in FileDeclarations}
    \cup {[cls |-> "ChannelDeclarationList", user_channels |-> c] :
            c \in {<<"alice">>, <<"bob", "carol">>}}

IsSObjectRuleDeclaration(obj) == obj.cls = "SObjectRuleDeclaration"
IsChannelDeclarationList(obj) == obj.cls = "ChannelDeclarationList"

PyList(items) == [cls |-> "list", items |-> items]

\* as parse_from_yaml, taking the first channel group when there are several
parse_from_yaml_FirstGroup(f) ==
    LET sobject_decls == SelectSeq(f, IsSObjectRuleDeclaration)
        channel_decls == SelectSeq(f, IsChannelDeclarationList)
    IN [raises |-> None,
        sobject_declarations |-> [n \in 1..Len(sobject_decls) |-> sobject_decls[n].decl],
        channel_declarations |->
            IF Len(channel_decls) >= 1 THEN channel_decls[1].user_channels ELSE <<>>]

\* raises = the exception raised, or None with the LoadDeclarationsTuple returned
parse_from_yaml(f) ==
    LET sobject_decls == SelectSeq(f, IsSObjectRuleDeclaration)
        channel_decls == SelectSeq(f, IsChannelDeclarationList)
    IN IF Len(channel_decls) > 1
       THEN [raises |-> Some("AssertionError"),
             sobject_declarations |-> <<>>, channel_declarations |-> <<>>]
       ELSE [raises |-> None,
             sobject_declarations |->
                [n \in 1..Len(sobject_decls) |-> sobject_decls[n].decl],
             channel_declarations |->
                IF Len(channel_decls) = 1 THEN channel_decls[1].user_channels ELSE <<>>]

\* declarations.extend(tuple): one element per member of the LoadDeclarationsTuple
ExtendWithTuple(declarations, t) ==
    declarations \o <<PyList(t.sobject_declarations), PyList(t.channel_declarations)>>

\* unify called on the gathered sequence: getattr(decl, key) of atomize_decls
\* fails on the first element that is no declaration
UnifyGathered(declarations) ==
    IF \E n \in 1..Len(declarations) : ~IsSObjectRuleDeclaration(declarations[n])
    THEN [raises |-> Some("AttributeError"), value |-> EmptyDict]
    ELSE [raises |-> None,
          value |-> unify([n \in 1..Len(declarations) |-> declarations[n].decl])]

(***************************************************************************)
(* configure_output_stream and _get_output_streams                         *)
(*                                                                         *)
(* An output file is [kind, suffix]: a str or Path ("path", opened by      *)
(* open_file_like and closed when its context exits), an open file-like    *)
(* object with a name ("named") or one without ("anonymous").  trace is    *)
(* the sequence of the calls made on streams, files and the embedding      *)
(* context.                                                                *)
(***************************************************************************)
MaxDburls == 1
MaxOutputFiles == 2

OutputFormats == {None, Some("json"), Some("sql"), Some("csv"), Some("xml")}

OutputFiles ==
    {[kind |-> "path", suffix |-> "json"], [kind |-> "path", suffix |-> "png"],
     [kind |-> "path", suffix |-> "xml"], [kind |-> "named", suffix |-> "txt"],
     [kind |-> "anonymous", suffix |-> ""]}

graphic_file_extensions ==
    {"PNG", "png", "SVG", "svg", "svgz", "jpeg", "jpg", "ps", "dot"}

Event(ev, msg, file, err) == [ev |-> ev, msg |-> msg, file |-> file, err |-> err]

Exc(origin, class) == [origin |-> origin, class |-> class]

\* the classes that `except Exception` catches
IsException(class) == class \in {"Exception", "DataGenError"}

\* the streams appended before the loop over output_files
StdStreams(urls, fmt, files) ==
    [n \in 1..Len(urls) |-> "SqlDbOutputStream"]
    \o (IF fmt = Some("json") /\ files = <<>> THEN <<"JSONOutputStream">> ELSE <<>>)
    \o (IF fmt = Some("sql") /\ files = <<>> THEN <<"SqlTextOutputStream">> ELSE <<>>)
    \o (IF fmt = Some("csv") THEN <<"CSVOutputStream">> ELSE <<>>)

\* the if/elif chain on format; None is the final else, which raises
StreamClass(format) ==
    IF format = "json" THEN Some("JSONOutputStream")
    ELSE IF format = "sql" THEN Some("SqlTextOutputStream")
    ELSE IF format = "txt" THEN Some("DebugOutputStream")
    ELSE IF format = "dot" THEN Some("GraphvizOutputStream")
    ELSE IF format \in graphic_file_extensions THEN Some("ImageOutputStream")
    ELSE None

\* `for f in output_files`, from file n on
RECURSIVE EnterFiles(_, _, _, _, _)
EnterFiles(files, n, fmt, streams, tr) ==
    IF n > Len(files)
    THEN [raises |-> None, output_streams |-> streams, trace |-> tr]
    ELSE LET f == files[n]
             entered == IF f.kind = "path"
                        THEN Append(tr, Event("file_open", "", n, FALSE))
                        ELSE tr
             format == IF fmt # None THEN fmt
                       ELSE IF f.kind # "anonymous" THEN Some(f.suffix)
                       ELSE None
             cls == IF format = None THEN None ELSE StreamClass(format[1])
         IN IF cls = None
            THEN [raises |-> Some("DataGenError"), output_streams |-> streams,
                  trace |-> entered]
            ELSE EnterFiles(files, n + 1, fmt, Append(streams, cls[1]), entered)

\* the files an ExitStack holds open after the calls of tr
OpenedIn(tr) == {tr[i].file : i \in {j \in 1..Len(tr) : tr[j].ev = "file_open"}}

\* ExitStack.__exit__: the contexts are left in the reverse of entry order
RECURSIVE ExitFiles(_, _)
ExitFiles(tr, open) ==
    IF open = {} THEN tr
    ELSE LET n == CHOOSE m \in open : \A k \in open : k <= m
         IN ExitFiles(Append(tr, Event("file_close", "", n, FALSE)), open \ {n})

\* lines 176-181
SelectStream(streams) ==
    IF Len(streams) = 0 THEN "DebugOutputStream"
    ELSE IF Len(streams) = 1 THEN streams[1]
    ELSE "MultiplexOutputStream"

\* what the body run under the context manager may do
BodyResults ==
    {[kind |-> "returns", class |-> ""],
     [kind |-> "raises", class |-> "Exception"],
     [kind |-> "raises", class |-> "KeyboardInterrupt"]}

\* what output_stream.close() may do: return None or a list of messages, or
\* raise an Exception or an exception outside Exception
CloseResults ==
    {[kind |-> "returns", messages |-> m, class |-> ""] :
        m \in {None, Some(<<>>), Some(<<"m1">>), Some(<<"m1", "m2">>)}}
    \cup {[kind |-> "raises", messages |-> None, class |-> c] :
            c \in {"Exception", "KeyboardInterrupt"}}

EchoAll(m) ==
    IF m = None THEN <<>>
    ELSE [i \in 1..Len(m[1]) |-> Event("echo", m[1][i], 0, FALSE)]

\* as FinallyBlock, with the close placed after the yield and no try/finally
FinallyBlock_NoFinally(tr, body_exc, result) ==
    IF body_exc # None
    THEN [trace |-> tr, messages |-> None, propagating |-> body_exc]
    ELSE LET called == Append(tr, Event("close", "", 0, FALSE)) IN
         IF result.kind = "raises"
         THEN IF IsException(result.class)
              THEN [trace |-> Append(called, Event("echo", "Could not close", 0, TRUE)),
                    messages |-> None, propagating |-> body_exc]
              ELSE [trace |-> called, messages |-> None,
                    propagating |-> Some(Exc("close", result.class))]
         ELSE [trace |-> called \o EchoAll(result.messages),
               messages |-> result.messages, propagating |-> body_exc]

\* as FinallyBlock, without the inner try/except around the close
FinallyBlock_Uncaught(tr, body_exc, result) ==
    LET called == Append(tr, Event("close", "", 0, FALSE)) IN
    IF result.kind = "raises"
    THEN [trace |-> called, messages |-> None,
          propagating |-> Some(Exc("close", result.class))]
    ELSE [trace |-> called \o EchoAll(result.messages),
          messages |-> result.messages, propagating |-> body_exc]

\* lines 184-194: the finally clause, entered with the exception of the body
\* (or None) in flight
FinallyBlock(tr, body_exc, result) ==
    LET called == Append(tr, Event("close", "", 0, FALSE)) IN
    IF result.kind = "raises"
    THEN IF IsException(result.class)
         THEN [trace |-> Append(called, Event("echo", "Could not close", 0, TRUE)),
               messages |-> None, propagating |-> body_exc]
         ELSE [trace |-> called, messages |-> None,
               propagating |-> Some(Exc("close", result.class))]
    ELSE [trace |-> called \o EchoAll(result.messages),
          messages |-> result.messages, propagating |-> body_exc]

(***************************************************************************)
(* tools/docs_samples.py: replace_samples                                  *)
(*                                                                         *)
(* Lines are strings; the apostrophe stands for the backquote, so the      *)
(* fence TRIPLE_QUOTE of three backquotes is written as three apostrophes. *)
(***************************************************************************)
MaxLines == 4

TRIPLE_QUOTE == "'''"

Whitespace == {" ", "\n", "\t"}

\* str.startswith
startswith(line, prefix) ==
    Len(line) >= Len(prefix) /\ SubSeq(line, 1, Len(prefix)) = prefix

\* `sub in line`
Contains(line, sub) ==
    \E i \in 1..(Len(line) - Len(sub) + 1) : SubSeq(line, i, i + Len(sub) - 1) = sub

RECURSIVE lstrip(_)
lstrip(str) ==
    IF Len(str) > 0 /\ SubSeq(str, 1, 1) \in Whitespace
    THEN lstrip(SubSeq(str, 2, Len(str)))
    ELSE str

RECURSIVE rstrip(_)
rstrip(str) ==
    IF Len(str) > 0 /\ SubSeq(str, Len(str), Len(str)) \in Whitespace
    THEN rstrip(SubSeq(str, 1, Len(str) - 1))
    ELSE str

\* str.strip
strip(str) == rstrip(lstrip(str))

\* the position of the first "#" of str at or after position n, or Len(str) + 1
RECURSIVE NextHash(_, _)
NextHash(str, n) ==
    IF n > Len(str) \/ SubSeq(str, n, n) = "#" THEN n ELSE NextHash(str, n + 1)

\* line.split("#")[1], for a line that starts with "#"
SplitSecond(line) == SubSeq(line, 2, NextHash(line, 2) - 1)

\* the example files that exist, with their lines
ExampleFiles == "f.yml" :> <<"a: 1\n", "b: 2\n">>

\* the lines a document is made of
DocLines ==
    {"'''\n", "'''yaml\n", "# f.yml\n", "# g.yml\n", "#\n", "text\n",
     "a ''' b\n"}

\* check_triple_quote_alone: TRUE when the assert passes
check_triple_quote_alone(line) == strip(line) = TRIPLE_QUOTE

Step(raises, next, out) == [raises |-> raises, state |-> next, out |-> out]

\* START_EXAMPLE.next_state on a line that starts with "#"
ReadExample(line) ==
    LET filename == strip(SplitSecond(line)) IN
    IF filename = ""
    THEN Step(Some("IsADirectoryError"), "START_EXAMPLE", <<>>)
    ELSE IF filename \notin DOMAIN ExampleFiles
    THEN Step(Some("AssertionError"), "START_EXAMPLE", <<>>)
    ELSE Step(None, "REPLACING", <<line>> \o ExampleFiles[filename])

\* state.next_state(line, location) of the four state classes
next_state(st, line) ==
    IF st = "TOP"
    THEN IF startswith(line, TRIPLE_QUOTE)
         THEN Step(None, "START_EXAMPLE", <<line>>)
         ELSE Step(None, "TOP", <<line>>)
    ELSE IF st = "OPEN"
    THEN IF startswith(line, TRIPLE_QUOTE)
         THEN IF check_triple_quote_alone(line)
              THEN Step(None, "TOP", <<line>>)
              ELSE Step(Some("AssertionError"), st, <<>>)
         ELSE Step(None, "OPEN", <<line>>)
    ELSE IF st = "REPLACING"
    THEN IF startswith(line, TRIPLE_QUOTE)
         THEN IF check_triple_quote_alone(line)
              THEN Step(None, "TOP", <<line>>)
              ELSE Step(Some("AssertionError"), st, <<>>)
         ELSE Step(None, "REPLACING", <<>>)
    ELSE IF startswith(line, "#")
         THEN ReadExample(line)
         ELSE Step(None, "OPEN", <<line>>)

\* "".join(strs)
RECURSIVE Join(_)
Join(strs) == IF strs = <<>> THEN "" ELSE Head(strs) \o Join(Tail(strs))

(***************************************************************************)
(* State: one call of unify followed by the export of its result, and one  *)
(* call of gather_declarations                                             *)
(***************************************************************************)
VARIABLES decls, pc, atomic_decls, results, objs, exported,
          load_declarations, gpc, fileno, declarations, raised,
          unified_declarations,
          heap, first, first_seen, second,
          dburls, output_format, output_files, opc, output_streams,
          output_stream, open_files, body_result, close_result, messages,
          propagating, trace,
          lines, linenum, state, output, dpc, state_log, joined

uvars == <<decls, pc, atomic_decls, results, objs, exported>>
gvars == <<load_declarations, gpc, fileno, declarations, raised,
           unified_declarations>>
hvars == <<heap, first, first_seen, second>>
ovars == <<dburls, output_format, output_files, opc, output_streams,
           output_stream, open_files, body_result, close_result, messages,
           propagating, trace>>
dvars == <<lines, linenum, state, output, dpc, state_log, joined>>
vars == <<uvars, gvars, hvars, ovars, dvars>>

SeqsUpTo(S, n) == UNION {[1..m -> S] : m \in 0..n}

\* the attributes a declaration has present
PresentKeys(decl) == {key \in DOMAIN MERGE_RULES : decl[key] # None}

\* the explored declarations set nothing, api alone, load_after alone, or
\* every override attribute
InputShapes == {{}, {"api"}, {"load_after"}, ExportKeys}

InputDeclarations == {d \in SObjectRuleDeclaration : PresentKeys(d) \in InputShapes}

NoUnifyCall ==
    /\ decls = <<>>
    /\ pc = "idle"
    /\ atomic_decls = <<>>
    /\ results = EmptyDict
    /\ objs = EmptyDict
    /\ exported = EmptyDict

NoGatherCall ==
    /\ load_declarations = <<>>
    /\ gpc = "idle"
    /\ fileno = 0
    /\ declarations = <<>>
    /\ raised = None
    /\ unified_declarations = None

NoHeapCall ==
    /\ heap = <<>>
    /\ first = None
    /\ first_seen = None
    /\ second = None

NoOutputStream ==
    /\ dburls = <<>>
    /\ output_format = None
    /\ output_files = <<>>
    /\ opc = "idle"
    /\ output_streams = <<>>
    /\ output_stream = None
    /\ open_files = {}
    /\ body_result = None
    /\ close_result = None
    /\ messages = None
    /\ propagating = None
    /\ trace = <<>>

NoDocsRun ==
    /\ lines = <<>>
    /\ linenum = 0
    /\ state = "TOP"
    /\ output = <<>>
    /\ dpc = "idle"
    /\ state_log = <<>>
    /\ joined = None

\* nothing but unify and gather_declarations is running
NoOtherCall == NoHeapCall /\ NoOutputStream /\ NoDocsRun

Init ==
    /\ decls \in SeqsUpTo(InputDeclarations, MaxDecls)
    /\ pc = "call"
    /\ atomic_decls = <<>>
    /\ results = EmptyDict
    /\ objs = EmptyDict
    /\ exported = EmptyDict
    /\ NoGatherCall
    /\ NoOtherCall

\* unify(decls): atomize, merge, then assemble under the assert
Unify ==
    /\ pc = "call"
    /\ atomic_decls' = atomize_decls(decls)
    /\ results' = MergeAtoms(atomic_decls')
    /\ IF AssemblyAssertHolds(results')
       THEN objs' = Assemble(results') /\ pc' = "done"
       ELSE objs' = objs /\ pc' = "AssertionError"
    /\ UNCHANGED <<decls, exported>>
    /\ UNCHANGED <<gvars, hvars, ovars, dvars>>

\* the export step: as_mapping of every canonical declaration
Export ==
    /\ pc = "done"
    /\ exported' = [sobj \in DOMAIN objs |-> as_mapping(objs[sobj])]
    /\ pc' = "exported"
    /\ UNCHANGED <<decls, atomic_decls, results, objs>>
    /\ UNCHANGED <<gvars, hvars, ovars, dvars>>

Next == Unify \/ Export

Spec == Init /\ [][Next]_vars

LoadFiles == SeqsUpTo(FileItems, MaxItems)

GatherInit ==
    /\ load_declarations \in SeqsUpTo(LoadFiles, MaxFiles)
    /\ gpc = "start"
    /\ fileno = 0
    /\ declarations = <<>>
    /\ raised = None
    /\ unified_declarations = None
    /\ NoUnifyCall
    /\ NoOtherCall

\* `if not load_declarations`: the inferred path is a file holding f, or is none
InferLoadFile ==
    /\ gpc = "start"
    /\ IF load_declarations = <<>>
       THEN \E found \in {None} \cup {Some(f) : f \in LoadFiles} :
                load_declarations' = IF found = None THEN <<>> ELSE <<found[1]>>
       ELSE load_declarations' = load_declarations
    /\ gpc' = "branch"
    /\ fileno' = 1
    /\ UNCHANGED <<declarations, raised, unified_declarations>>
    /\ UNCHANGED <<uvars, hvars, ovars, dvars>>

\* one iteration of `for declfile in load_declarations`
GatherFile ==
    /\ gpc = "branch"
    /\ load_declarations # <<>>
    /\ fileno <= Len(load_declarations)
    /\ LET t == parse_from_yaml(load_declarations[fileno]) IN
        IF t.raises # None
        THEN /\ raised' = t.raises
             /\ gpc' = "raised"
             /\ UNCHANGED <<declarations, fileno>>
        ELSE /\ declarations' = ExtendWithTuple(declarations, t)
             /\ fileno' = fileno + 1
             /\ UNCHANGED <<raised, gpc>>
    /\ UNCHANGED <<load_declarations, unified_declarations>>
    /\ UNCHANGED <<uvars, hvars, ovars, dvars>>

\* unified_declarations = unify(declarations)
GatherUnify ==
    /\ gpc = "branch"
    /\ load_declarations # <<>>
    /\ fileno > Len(load_declarations)
    /\ LET r == UnifyGathered(declarations) IN
        IF r.raises # None
        THEN /\ raised' = r.raises
             /\ gpc' = "raised"
             /\ UNCHANGED unified_declarations
        ELSE /\ unified_declarations' = Some(r.value)
             /\ gpc' = "returned"
             /\ UNCHANGED raised
    /\ UNCHANGED <<load_declarations, fileno, declarations>>
    /\ UNCHANGED <<uvars, hvars, ovars, dvars>>

\* the else branch: unified_declarations = {}
GatherNothing ==
    /\ gpc = "branch"
    /\ load_declarations = <<>>
    /\ unified_declarations' = Some(EmptyDict)
    /\ gpc' = "returned"
    /\ UNCHANGED <<load_declarations, fileno, declarations, raised>>
    /\ UNCHANGED <<uvars, hvars, ovars, dvars>>

GatherNext == InferLoadFile \/ GatherFile \/ GatherUnify \/ GatherNothing

SpecGather == GatherInit /\ [][GatherNext]_vars

\* declarations whose batch_size is 0 or whose anchor_date is the empty string
FalsyDeclarations ==
    {[NewDeclaration(e) EXCEPT !.priority = p, !.batch_size = b, !.anchor_date = a] :
        e \in Entities, p \in PriorityChoices,
        b \in {None, Some(0)}, a \in {None, Some("")}}

AtomizeDeclarations == InputDeclarations \cup FalsyDeclarations

AtomizeInit ==
    /\ decls \in SeqsUpTo(AtomizeDeclarations, MaxDecls)
    /\ pc = "atomize"
    /\ atomic_decls = <<>>
    /\ results = EmptyDict
    /\ objs = EmptyDict
    /\ exported = EmptyDict
    /\ NoGatherCall
    /\ NoOtherCall

\* atomize_decls(decls)
Atomize ==
    /\ pc = "atomize"
    /\ atomic_decls' = atomize_decls(decls)
    /\ pc' = "atomized"
    /\ UNCHANGED <<decls, results, objs, exported>>
    /\ UNCHANGED <<gvars, hvars, ovars, dvars>>

SpecAtomize == AtomizeInit /\ [][Atomize]_vars

MaxCallDecls == 3

\* declarations that set api alone or load_after alone, at the default or
\* the high priority
CallDeclarations ==
    {d \in InputDeclarations :
        /\ d.priority \in {None, Some("high")}
        /\ PresentKeys(d) \in {{"api"}, {"load_after"}}}

CallsInit ==
    /\ decls \in SeqsUpTo(CallDeclarations, MaxCallDecls)
    /\ pc = "first"
    /\ atomic_decls = <<>>
    /\ results = EmptyDict
    /\ objs = EmptyDict
    /\ exported = EmptyDict
    /\ NoHeapCall
    /\ NoGatherCall
    /\ NoOutputStream
    /\ NoDocsRun

\* the first call unify(decls); its caller keeps the mapping and reads it
FirstCall ==
    /\ pc = "first"
    /\ LET r == unifyH(heap, decls) IN
        /\ heap' = r.heap
        /\ IF r.raises = None
           THEN /\ first' = Some(r.objs)
                /\ first_seen' = Some(Deref(r.heap, r.objs))
                /\ pc' = "second"
           ELSE /\ UNCHANGED <<first, first_seen>>
                /\ pc' = "AssertionError"
    /\ UNCHANGED <<decls, atomic_decls, results, objs, exported, second>>
    /\ UNCHANGED <<gvars, ovars, dvars>>

\* the second call unify(decls), in the same process
SecondCall ==
    /\ pc = "second"
    /\ LET r == unifyH(heap, decls) IN
        /\ heap' = r.heap
        /\ IF r.raises = None
           THEN second' = Some(r.objs) /\ pc' = "returned"
           ELSE UNCHANGED second /\ pc' = "AssertionError"
    /\ UNCHANGED <<decls, atomic_decls, results, objs, exported, first, first_seen>>
    /\ UNCHANGED <<gvars, ovars, dvars>>

CallsNext == FirstCall \/ SecondCall

SpecCalls == CallsInit /\ [][CallsNext]_vars

OutputInit ==
    /\ dburls \in SeqsUpTo({"sqlite:///out.db"}, MaxDburls)
    /\ output_format \in OutputFormats
    /\ output_files \in SeqsUpTo(OutputFiles, MaxOutputFiles)
    /\ opc = "enter"
    /\ output_streams = <<>>
    /\ output_stream = None
    /\ open_files = {}
    /\ body_result = None
    /\ close_result = None
    /\ messages = None
    /\ propagating = None
    /\ trace = <<>>
    /\ NoUnifyCall
    /\ NoGatherCall
    /\ NoHeapCall
    /\ NoDocsRun

\* entering the context managers: _get_output_streams up to its yield and
\* the choice of output_stream; a raise unwinds the ExitStack
GetOutputStreams ==
    /\ opc = "enter"
    /\ LET r == EnterFiles(output_files, 1, output_format,
                           StdStreams(dburls, output_format, output_files), <<>>) IN
        IF r.raises # None
        THEN /\ trace' = ExitFiles(r.trace, OpenedIn(r.trace))
             /\ propagating' = Some(Exc("setup", r.raises[1]))
             /\ opc' = "raised"
             /\ UNCHANGED <<output_streams, output_stream, open_files>>
        ELSE /\ output_streams' = r.output_streams
             /\ output_stream' = Some(SelectStream(r.output_streams))
             /\ open_files' = OpenedIn(r.trace)
             /\ trace' = r.trace
             /\ opc' = "body"
             /\ UNCHANGED propagating
    /\ UNCHANGED <<dburls, output_format, output_files, body_result, close_result, messages>>
    /\ UNCHANGED <<uvars, gvars, hvars, dvars>>

\* the body under `with configure_output_stream(...)` finishes
Body ==
    /\ opc = "body"
    /\ \E r \in BodyResults : body_result' = Some(r)
    /\ opc' = "finally"
    /\ UNCHANGED <<dburls, output_format, output_files, output_streams, output_stream,
                   open_files, close_result, messages, propagating, trace>>
    /\ UNCHANGED <<uvars, gvars, hvars, dvars>>

BodyExc ==
    IF body_result[1].kind = "raises" THEN Some(Exc("body", body_result[1].class)) ELSE None

\* the finally clause of configure_output_stream
CloseStream ==
    /\ opc = "finally"
    /\ \E result \in CloseResults :
        LET fb == FinallyBlock(trace, BodyExc, result) IN
        /\ trace' = fb.trace
        /\ messages' = fb.messages
        /\ propagating' = fb.propagating
        /\ close_result' = Some(result)
    /\ opc' = "exit"
    /\ UNCHANGED <<dburls, output_format, output_files, output_streams, output_stream,
                   open_files, body_result>>
    /\ UNCHANGED <<uvars, gvars, hvars, dvars>>

\* leaving `with _get_output_streams(...)`: the ExitStack closes the files,
\* and the exception in flight, if any, reaches the caller
ExitOutputStreams ==
    /\ opc = "exit"
    /\ trace' = ExitFiles(trace, open_files)
    /\ open_files' = {}
    /\ opc' = IF propagating = None THEN "returned" ELSE "raised"
    /\ UNCHANGED <<dburls, output_format, output_files, output_streams, output_stream,
                   body_result, close_result, messages, propagating>>
    /\ UNCHANGED <<uvars, gvars, hvars, dvars>>

OutputNext == GetOutputStreams \/ Body \/ CloseStream \/ ExitOutputStreams

SpecOutput == OutputInit /\ [][OutputNext]_vars

DocsInit ==
    /\ lines \in SeqsUpTo(DocLines, MaxLines)
    /\ linenum = 0
    /\ state = "TOP"
    /\ output = <<>>
    /\ dpc = "run"
    /\ state_log = <<>>
    /\ joined = None
    /\ NoUnifyCall
    /\ NoGatherCall
    /\ NoHeapCall
    /\ NoOutputStream

\* one iteration of the loop of replace_samples; state_log keeps the state
\* reached after each line
ProcessLine ==
    /\ dpc = "run"
    /\ linenum < Len(lines)
    /\ LET line == lines[linenum + 1]
           r == next_state(state, line)
       IN IF r.raises # None
          THEN /\ dpc' = r.raises[1]
               /\ UNCHANGED <<linenum, state, output, state_log>>
          ELSE /\ state' = r.state
               /\ output' = output \o r.out
               /\ IF ~startswith(line, TRIPLE_QUOTE) /\ Contains(line, TRIPLE_QUOTE)
                  THEN dpc' = "AssertionError" /\ UNCHANGED <<linenum, state_log>>
                  ELSE /\ linenum' = linenum + 1
                       /\ state_log' = Append(state_log, r.state)
                       /\ UNCHANGED dpc
    /\ UNCHANGED <<lines, joined>>
    /\ UNCHANGED <<uvars, gvars, hvars, ovars>>

\* return "".join(output)
ReturnSamples ==
    /\ dpc = "run"
    /\ linenum = Len(lines)
    /\ joined' = Some(Join(output))
    /\ dpc' = "returned"
    /\ UNCHANGED <<lines, linenum, state, output, state_log>>
    /\ UNCHANGED <<uvars, gvars, hvars, ovars>>

DocsNext == ProcessLine \/ ReturnSamples

SpecDocs == DocsInit /\ [][DocsNext]_vars

\* unify called directly, or gather_declarations called
InitAll == Init \/ GatherInit

NextAll == Next \/ GatherNext

SpecAll == InitAll /\ [][NextAll]_vars

(***************************************************************************)
(* Vocabulary of the properties                                            *)
(***************************************************************************)
Returned == pc = "done"

\* positions of the declarations of entity e in ds that set attribute k
Setters(ds, e, k) == {n \in 1..Len(ds) : ds[n].sf_object = e /\ ds[n][k] # None}

MaxWeight(ds, S) ==
    CHOOSE w \in 1..3 :
        /\ \E n \in S : priority_number(ds[n]) = w
        /\ \A n \in S : priority_number(ds[n]) <= w

\* the earliest position of S whose declaration has the highest weight in S
FirstOfHighest(ds, S) ==
    CHOOSE n \in S :
        /\ priority_number(ds[n]) = MaxWeight(ds, S)
        /\ \A m \in S : priority_number(ds[m]) = MaxWeight(ds, S) => n <= m

(***************************************************************************)
(* C1  Tie-break: when two declarations of an entity set an override       *)
(* attribute at the same weight and none sets it at a higher weight, the   *)
(* earliest declaration of that highest weight supplies the resolved value *)
(***************************************************************************)
C1_TieBreak ==
    Returned =>
        \A e \in Entities : \A k \in ExportKeys :
            LET S == Setters(decls, e, k) IN
            \A a \in S : \A b \in S :
                (/\ a < b
                 /\ priority_number(decls[a]) = priority_number(decls[b])
                 /\ \A c \in S : priority_number(decls[c]) <= priority_number(decls[a]))
                => /\ e \in DOMAIN objs
                   /\ objs[e][k] = decls[FirstOfHighest(decls, S)][k]

C1_Witness ==
    /\ Returned
    /\ \E e \in Entities : \E k \in ExportKeys :
        LET S == Setters(decls, e, k) IN
        \E a \in S : \E b \in S :
            /\ a < b
            /\ priority_number(decls[a]) = priority_number(decls[b])
            /\ \A c \in S : priority_number(decls[c]) <= priority_number(decls[a])
            /\ decls[a][k] # decls[b][k]
            /\ objs[e][k] = decls[a][k]

(***************************************************************************)
(* C2  Override by priority: the resolved value of an override attribute   *)
(* is the value of a declaration of the highest weight among those of the  *)
(* entity that set it, wherever that declaration stands in the sequence    *)
(***************************************************************************)
C2_OverrideByPriority ==
    Returned =>
        \A e \in Entities : \A k \in ExportKeys :
            LET S == Setters(decls, e, k) IN
            S # {} =>
                /\ e \in DOMAIN objs
                /\ objs[e][k] # None
                /\ \E n \in S : /\ priority_number(decls[n]) = MaxWeight(decls, S)
                                /\ objs[e][k] = decls[n][k]

\* the higher tier stands first and a lower tier with another value follows
C2_Witness ==
    /\ Returned
    /\ \E e \in Entities : \E k \in ExportKeys :
        LET S == Setters(decls, e, k) IN
        \E a \in S : \E b \in S :
            /\ a < b
            /\ priority_number(decls[a]) = 3
            /\ priority_number(decls[b]) = 1
            /\ decls[a][k] # decls[b][k]
            /\ objs[e][k] = decls[a][k]

(***************************************************************************)
(* C3  Accumulation law: the resolved load_after of an entity lists the    *)
(* load_after of every declaration of it that sets one, in input order,    *)
(* one entry each, repeats kept, whatever the priorities                   *)
(***************************************************************************)
Contributions(ds, e) ==
    LET Contributes(d) == d.sf_object = e /\ d.load_after # None
        sel == SelectSeq(ds, Contributes)
    IN [n \in 1..Len(sel) |-> sel[n].load_after[1]]

C3_Accumulation ==
    Returned =>
        \A e \in Entities :
            Setters(decls, e, "load_after") # {} =>
                /\ e \in DOMAIN objs
                /\ objs[e].load_after = Some(Contributions(decls, e))
                /\ Len(objs[e].load_after[1]) = Cardinality(Setters(decls, e, "load_after"))

\* two contributors of different tiers giving the same value twice
C3_Witness ==
    /\ Returned
    /\ \E e \in Entities :
        LET S == Setters(decls, e, "load_after") IN
        \E a \in S : \E b \in S :
            /\ a < b
            /\ priority_number(decls[a]) > priority_number(decls[b])
            /\ decls[a].load_after = decls[b].load_after
            /\ Len(objs[e].load_after[1]) = Cardinality(S)

(***************************************************************************)
(* C4  Order-independence across priority tiers.  As claimed: for two      *)
(* declarations A, B of one entity with different tiers, unify([A, B]) and *)
(* unify([B, A]) are equal mappings.                                       *)
(* As amended: they hold the same entities and agree on every override     *)
(* attribute; they agree on load_after unless A and B both set it, and     *)
(* then each lists the two values in its own input order.                  *)
(***************************************************************************)
Swapped(ds) == <<ds[2], ds[1]>>

TwoTiersOneEntity ==
    /\ Returned
    /\ Len(decls) = 2
    /\ decls[1].sf_object = decls[2].sf_object
    /\ priority_number(decls[1]) # priority_number(decls[2])

C4_AsClaimed == TwoTiersOneEntity => objs = unify(Swapped(decls))

C4_OrderIndependentOverride ==
    TwoTiersOneEntity =>
        LET other == unify(Swapped(decls)) IN
        /\ DOMAIN other = DOMAIN objs
        /\ \A e \in DOMAIN objs :
            /\ \A f \in DOMAIN objs[e] \ {"load_after"} : other[e][f] = objs[e][f]
            /\ IF decls[1].load_after # None /\ decls[2].load_after # None
               THEN /\ objs[e].load_after =
                            Some(<<decls[1].load_after[1], decls[2].load_after[1]>>)
                    /\ other[e].load_after =
                            Some(<<decls[2].load_after[1], decls[1].load_after[1]>>)
               ELSE other[e].load_after = objs[e].load_after

\* the lower tier stands last with another api
C4_Witness ==
    /\ TwoTiersOneEntity
    /\ priority_number(decls[1]) > priority_number(decls[2])
    /\ decls[1].api # None
    /\ decls[2].api # None
    /\ decls[1].api # decls[2].api
    /\ objs[decls[1].sf_object].api = decls[1].api
    /\ unify(Swapped(decls))[decls[1].sf_object].api = decls[1].api

(***************************************************************************)
(* C5  One canonical declaration per entity seen: the returned mapping has *)
(* an entry for every sf_object of an input declaration, whichever         *)
(* attributes the declaration has present                                  *)
(***************************************************************************)
C5_OneEntryPerEntitySeen ==
    Returned => DOMAIN objs = {decls[n].sf_object : n \in 1..Len(decls)}

(***************************************************************************)
(* C6  Absence is not override, attributes resolve independently: taking   *)
(* in a declaration that does not set attribute k for entity e leaves the  *)
(* running resolved entry of (e, k) as it was, and the resolved value of   *)
(* (e, k) is the one unify gives on the declarations of e that set k       *)
(***************************************************************************)
Entry(res, e, k) ==
    IF e \in DOMAIN res /\ k \in DOMAIN res[e] THEN Some(res[e][k]) ELSE None

Resolved(mapping, e, k) == IF e \in DOMAIN mapping THEN mapping[e][k] ELSE None

SettersOnly(ds, e, k) ==
    LET Sets(d) == d.sf_object = e /\ d[k] # None IN SelectSeq(ds, Sets)

\* the running results after each declaration of ds in turn, starting from res
RECURSIVE RunningResults(_, _)
RunningResults(res, ds) ==
    IF ds = <<>> THEN <<res>>
    ELSE <<res>> \o RunningResults(MergeFrom(res, AtomsOfDecl(Head(ds))), Tail(ds))

C6_AbsenceIsNotOverride ==
    Returned =>
        LET running == RunningResults(EmptyDict, decls) IN
        /\ results = running[Len(decls) + 1]
        /\ \A n \in 1..Len(decls) :
            \A e \in Entities : \A k \in DOMAIN MERGE_RULES :
                (decls[n].sf_object # e \/ decls[n][k] = None) =>
                    Entry(running[n + 1], e, k) = Entry(running[n], e, k)
        /\ \A e \in Entities : \A k \in DOMAIN MERGE_RULES :
            IF Setters(decls, e, k) = {}
            THEN Resolved(objs, e, k) = None
            ELSE Resolved(objs, e, k) = unify(SettersOnly(decls, e, k))[e][k]

\* a high declaration setting only api follows one that sets every override
\* attribute
C6_Witness ==
    /\ Returned
    /\ Len(decls) = 2
    /\ decls[1].sf_object = decls[2].sf_object
    /\ PresentKeys(decls[1]) = ExportKeys
    /\ PresentKeys(decls[2]) = {"api"}
    /\ priority_number(decls[2]) > priority_number(decls[1])
    /\ decls[2].api # decls[1].api
    /\ objs[decls[1].sf_object].api = decls[2].api
    /\ objs[decls[1].sf_object].batch_size = decls[1].batch_size
    /\ objs[decls[1].sf_object].bulk_mode = decls[1].bulk_mode

(***************************************************************************)
(* C9  Default priority: a declaration without priority is atomized with   *)
(* the weight of medium, so writing medium wherever the priority is        *)
(* omitted changes neither the atoms' weights nor the result of unify      *)
(***************************************************************************)
WithExplicitMedium(ds) ==
    [n \in 1..Len(ds) |->
        IF ds[n].priority = None
        THEN [ds[n] EXCEPT !.priority = Some("medium")]
        ELSE ds[n]]

C9_DefaultPriority ==
    Returned =>
        /\ atomic_decls = atomize_decls(WithExplicitMedium(decls))
        /\ objs = unify(WithExplicitMedium(decls))
        /\ \A n \in 1..Len(decls) :
            decls[n].priority = None => priority_number(decls[n]) = 2

\* a declaration without priority beats an earlier low one
C9_Witness ==
    /\ Returned
    /\ Len(decls) = 2
    /\ decls[1].sf_object = decls[2].sf_object
    /\ decls[1].priority = Some("low")
    /\ decls[2].priority = None
    /\ decls[1].api # None
    /\ decls[2].api # None
    /\ decls[1].api # decls[2].api
    /\ objs[decls[1].sf_object].api = decls[2].api

(***************************************************************************)
(* C10  Export mapping: as_mapping of a canonical declaration has exactly  *)
(* the keys among api, bulk_mode, batch_size, anchor_date that some input  *)
(* declaration of the entity set, each with its resolved value; untouched  *)
(* attributes stay unset; sf_object, priority, load_after are never keys   *)
(***************************************************************************)
C10_ExportMapping ==
    pc = "exported" =>
        /\ DOMAIN exported = DOMAIN objs
        /\ \A e \in DOMAIN objs :
            /\ DOMAIN exported[e] = {k \in ExportKeys : Setters(decls, e, k) # {}}
            /\ \A k \in DOMAIN exported[e] : exported[e][k] = results[e][k].value
            /\ \A k \in DOMAIN MERGE_RULES :
                Setters(decls, e, k) = {} => objs[e][k] = None
            /\ DOMAIN exported[e] \cap {"sf_object", "priority", "load_after"} = {}

\* load_after is resolved, one override attribute is set and the others are not
C10_Witness ==
    /\ pc = "exported"
    /\ \E e \in DOMAIN objs :
        /\ objs[e].load_after # None
        /\ DOMAIN exported[e] = {"api"}
        /\ exported[e].api = "bulk"

(***************************************************************************)
(* C7  Channel-group limit: parsing a file with more than one channel      *)
(* group raises and yields none of its declarations, so the gathering call *)
(* ends without a unified mapping; a file with one group yields the        *)
(* group's user_channels, a file with none yields no channels, and files   *)
(* with one group each do not raise this error                             *)
(***************************************************************************)
ChannelGroups(f) == SelectSeq(f, IsChannelDeclarationList)

\* the number of files before the first one that holds several channel groups
ParsableFiles(fs) ==
    IF \E n \in 1..Len(fs) : Len(ChannelGroups(fs[n])) > 1
    THEN (CHOOSE n \in 1..Len(fs) :
            /\ Len(ChannelGroups(fs[n])) > 1
            /\ \A m \in 1..(n - 1) : Len(ChannelGroups(fs[m])) <= 1) - 1
    ELSE Len(fs)

C7_ChannelGroupLimit ==
    gpc \in {"branch", "raised", "returned"} =>
        /\ Len(declarations) <= 2 * ParsableFiles(load_declarations)
        /\ \A n \in 1..Len(load_declarations) :
            2 * n <= Len(declarations) =>
                LET groups == ChannelGroups(load_declarations[n]) IN
                /\ Len(groups) <= 1
                /\ Len(groups) = 1 => declarations[2 * n].items = groups[1].user_channels
                /\ Len(groups) = 0 => declarations[2 * n].items = <<>>
        /\ (gpc \in {"raised", "returned"}
                /\ ParsableFiles(load_declarations) < Len(load_declarations))
            => /\ raised = Some("AssertionError")
               /\ unified_declarations = None
               /\ Len(declarations) = 2 * ParsableFiles(load_declarations)
        /\ ParsableFiles(load_declarations) = Len(load_declarations)
            => raised # Some("AssertionError")

\* a file with one group was taken in, then a file with two groups raised
C7_Witness ==
    /\ gpc = "raised"
    /\ raised = Some("AssertionError")
    /\ Len(load_declarations) = 2
    /\ Len(ChannelGroups(load_declarations[1])) = 1
    /\ Len(ChannelGroups(load_declarations[2])) = 2
    /\ Len(declarations) = 2
    /\ declarations[2].items = ChannelGroups(load_declarations[1])[1].user_channels

(***************************************************************************)
(* C8  Input handed to the engine: the sequence gather_declarations passes *)
(* to unify holds the sobject declarations of the first file in document   *)
(* order, then those of the second, and so on, each element a              *)
(* SObjectRuleDeclaration and nothing else                                 *)
(***************************************************************************)
RECURSIVE SObjectDeclarationsOf(_)
SObjectDeclarationsOf(fs) ==
    IF fs = <<>> THEN <<>>
    ELSE LET sobjs == SelectSeq(Head(fs), IsSObjectRuleDeclaration)
         IN [m \in 1..Len(sobjs) |-> sobjs[m].decl] \o SObjectDeclarationsOf(Tail(fs))

AboutToUnify ==
    gpc = "branch" /\ load_declarations # <<>> /\ fileno > Len(load_declarations)

C8_TypedFlatInput ==
    AboutToUnify =>
        /\ Len(declarations) = Len(SObjectDeclarationsOf(load_declarations))
        /\ \A n \in 1..Len(declarations) :
            /\ IsSObjectRuleDeclaration(declarations[n])
            /\ declarations[n].decl = SObjectDeclarationsOf(load_declarations)[n]

(***************************************************************************)
(* C11  Closed world: every key of the mapping unify returns is the        *)
(* sf_object of some input declaration, the empty sequence gives the empty *)
(* mapping, and gather_declarations returns the empty mapping when no      *)
(* load-declaration file is given or inferred                              *)
(***************************************************************************)
InputEntities(ds) == {ds[n].sf_object : n \in 1..Len(ds)}

C11_ClosedWorld ==
    /\ pc \in {"done", "exported"} =>
        /\ DOMAIN objs \subseteq InputEntities(decls)
        /\ decls = <<>> => objs = EmptyDict
    /\ (gpc = "returned" /\ load_declarations = <<>>) =>
        unified_declarations = Some(EmptyDict)

\* Contact is to load after Account, and only Contact is in the result
C11_Witness ==
    /\ Returned
    /\ \E n \in 1..Len(decls) :
        decls[n].sf_object = "Contact" /\ decls[n].load_after = Some("Account")
    /\ InputEntities(decls) = {"Contact"}
    /\ DOMAIN objs = {"Contact"}

(***************************************************************************)
(* C15  Totality: on every finite input sequence, the empty one included,  *)
(* the step unify takes from its call ends in a return, never in a raise,  *)
(* and what it returns is a mapping from entities to declarations whose    *)
(* every resolved entry is filed under its own key (the assertion          *)
(* decl.key == key of the assembly pass holds)                             *)
(***************************************************************************)
C15_Totality ==
    [][pc = "call" =>
        /\ pc' = "done"
        /\ AssemblyAssertHolds(results')
        /\ DOMAIN objs' = DOMAIN results'
        /\ \A sobj \in DOMAIN objs' :
            /\ DOMAIN objs'[sobj] = DOMAIN NewDeclaration(sobj)
            /\ objs'[sobj].sf_object = sobj]_vars

\* one entity resolved under both merge rules, from two declarations
C15_Witness ==
    /\ Returned
    /\ Len(decls) = 2
    /\ \E sobj \in DOMAIN results :
        /\ DOMAIN results[sobj] = {"api", "load_after"}
        /\ results[sobj]["api"].key = "api"
        /\ results[sobj]["load_after"].key = "load_after"
        /\ objs[sobj].sf_object = sobj

(***************************************************************************)
(* C14  Atomizer contract: atomize_decls returns one block per declaration *)
(* in input order; the block of a declaration holds one atom per registry  *)
(* key whose value is not None (0 and the empty string are present), in    *)
(* registry order, and each atom carries the declaration's entity, the     *)
(* key, the value, the declaration's priority weight and the rule          *)
(* registered for the key                                                  *)
(***************************************************************************)
PresentRegistryKeys(d) == SelectSeq(MERGE_KEYS, LAMBDA k : d[k] # None)

\* the number of atoms the declarations before position i account for
RECURSIVE BlockStart(_, _)
BlockStart(ds, i) ==
    IF i = 1 THEN 0
    ELSE BlockStart(ds, i - 1) + Len(PresentRegistryKeys(ds[i - 1]))

PriorityWeight(d) ==
    IF d.priority \in {None, Some("medium")} THEN 2
    ELSE IF d.priority = Some("low") THEN 1 ELSE 3

RegisteredRule(k) == IF k = "load_after" THEN "append" ELSE "use_highest_priority"

C14_AtomizerContract ==
    pc = "atomized" =>
        /\ Len(atomic_decls) = BlockStart(decls, Len(decls) + 1)
        /\ \A i \in 1..Len(decls) :
            LET keys == PresentRegistryKeys(decls[i]) IN
            \A n \in 1..Len(keys) :
                atomic_decls[BlockStart(decls, i) + n] =
                    [sf_object |-> decls[i].sf_object,
                     key |-> keys[n],
                     value |-> decls[i][keys[n]][1],
                     priority |-> PriorityWeight(decls[i]),
                     merge_rule |-> RegisteredRule(keys[n])]

\* batch_size 0 and anchor_date "" of the first declaration are atoms, and
\* the atoms of the second declaration follow them
C14_Witness ==
    /\ pc = "atomized"
    /\ Len(decls) = 2
    /\ decls[1].batch_size = Some(0)
    /\ decls[1].anchor_date = Some("")
    /\ decls[2].load_after # None
    /\ Len(atomic_decls) = 3
    /\ atomic_decls[1].key = "batch_size" /\ atomic_decls[1].value = 0
    /\ atomic_decls[2].key = "anchor_date" /\ atomic_decls[2].value = ""
    /\ atomic_decls[3].key = "load_after"
    /\ atomic_decls[3].sf_object = decls[2].sf_object

(***************************************************************************)
(* C12  Order-independence across entities: swapping two adjacent          *)
(* declarations whose sf_object differ, anywhere in the input sequence,    *)
(* does not change the mapping unify returns                               *)
(***************************************************************************)
SwapAt(ds, n) ==
    [m \in 1..Len(ds) |->
        IF m = n THEN ds[n + 1] ELSE IF m = n + 1 THEN ds[n] ELSE ds[m]]

\* the mapping a single call unify(ds) returns, as its caller reads it
UnifyValue(ds) == LET r == unifyH(<<>>, ds) IN Deref(r.heap, r.objs)

C12_EntityOrderIndependence ==
    pc = "second" =>
        \A n \in 1..(Len(decls) - 1) :
            decls[n].sf_object # decls[n + 1].sf_object =>
                UnifyValue(SwapAt(decls, n)) = first_seen[1]

\* Account and Contact declarations in the middle of the sequence compete
\* with the declarations around them, for api and for load_after
C12_Witness ==
    /\ pc = "second"
    /\ Len(decls) = 3
    /\ decls[1].sf_object = "Account" /\ decls[1].api = Some("rest")
    /\ decls[2].sf_object = "Contact" /\ decls[2].load_after = Some("Account")
    /\ decls[3].sf_object = "Account" /\ decls[3].api = Some("bulk")
    /\ decls[3].priority = Some("high")
    /\ first_seen[1]["Account"].api = Some("bulk")
    /\ first_seen[1]["Contact"].load_after = Some(<<"Account">>)

(***************************************************************************)
(* C13  Determinism and call isolation: two calls of unify on the same     *)
(* input, one after the other in one process, return equal mappings and    *)
(* leave the input unchanged; the lists the accumulate strategy appends to *)
(* are allocated within the call, so the mapping the first call returned   *)
(* reads the same after the second call and shares no list with it         *)
(***************************************************************************)
C13_CallIsolation ==
    /\ [](pc = "returned" =>
            /\ Deref(heap, second[1]) = first_seen[1]
            /\ Deref(heap, first[1]) = first_seen[1]
            /\ ListsOf(first[1]) \cap ListsOf(second[1]) = {})
    /\ [][decls' = decls]_vars

\* both calls accumulated two values for Contact, each in a list of its own
C13_Witness ==
    /\ pc = "returned"
    /\ Len(decls) = 2
    /\ DOMAIN first[1] = {"Contact"}
    /\ first_seen[1]["Contact"].load_after = Some(<<"Account", "User">>)
    /\ Deref(heap, second[1])["Contact"].load_after = Some(<<"Account", "User">>)
    /\ first[1]["Contact"].load_after # second[1]["Contact"].load_after
    /\ Len(heap) = 2

(***************************************************************************)
(* Vocabulary of the output-stream properties                              *)
(***************************************************************************)
Positions(ev) == {i \in 1..Len(trace) : trace[i].ev = ev}

Echoes == SelectSeq(trace, LAMBDA e : e.ev = "echo")

\* the body has finished and the finally clause has run
BodyFinished == opc \in {"exit", "returned", "raised"} /\ body_result # None

\* control is back at the caller of the context manager
BackAtCaller == opc \in {"returned", "raised"} /\ body_result # None

BodyRaised == body_result # None /\ body_result[1].kind = "raises"

CloseRaised == close_result # None /\ close_result[1].kind = "raises"

CloseOnceBeforeFiles ==
    /\ Cardinality(Positions("close")) = 1
    /\ \A i \in Positions("close") : \A j \in Positions("file_close") : i < j

(***************************************************************************)
(* C16  Output-stream lifecycle, as claimed: whenever the body finishes,   *)
(* normally or by raising, output_stream.close() is called exactly once    *)
(* and before any output file opened by _get_output_streams is closed, and *)
(* an exception raised by the body still reaches the caller                *)
(***************************************************************************)
C16_AsClaimed ==
    BodyFinished =>
        /\ CloseOnceBeforeFiles
        /\ (BackAtCaller /\ BodyRaised) =>
            opc = "raised" /\ propagating = BodyExc

(***************************************************************************)
(* C16  Output-stream lifecycle: whenever the body finishes, normally or   *)
(* by raising, output_stream.close() is called exactly once and before any *)
(* output file opened by _get_output_streams is closed; the caller then    *)
(* gets the exception of the body, unless close itself raised an exception *)
(* outside Exception, which reaches the caller in its place; every opened  *)
(* file is closed by then                                                  *)
(***************************************************************************)
C16_Lifecycle ==
    BodyFinished =>
        /\ CloseOnceBeforeFiles
        /\ (BackAtCaller /\ BodyRaised) =>
            /\ opc = "raised"
            /\ propagating =
                IF CloseRaised /\ ~IsException(close_result[1].class)
                THEN Some(Exc("close", close_result[1].class))
                ELSE BodyExc
        /\ BackAtCaller =>
            {trace[j].file : j \in Positions("file_close")} =
                {trace[i].file : i \in Positions("file_open")}

\* the body raised with two files open: close, then the files in reverse
\* order of opening, then the exception of the body at the caller
C16_Witness ==
    /\ opc = "raised"
    /\ BodyRaised
    /\ close_result # None /\ close_result[1].kind = "returns"
    /\ Len(trace) = 5
    /\ trace[1].ev = "file_open" /\ trace[1].file = 1
    /\ trace[2].ev = "file_open" /\ trace[2].file = 2
    /\ trace[3].ev = "close"
    /\ trace[4].ev = "file_close" /\ trace[4].file = 2
    /\ trace[5].ev = "file_close" /\ trace[5].file = 1
    /\ propagating = Some(Exc("body", "Exception"))

(***************************************************************************)
(* C17  Close failure, as claimed: if output_stream.close() raises, the    *)
(* exception does not reach the caller, one message is echoed, with        *)
(* err=True, and no close message is echoed; when close succeeds, every    *)
(* message it returns is echoed, in order                                  *)
(***************************************************************************)
ClosedQuietly ==
    /\ propagating = BodyExc
    /\ Len(Echoes) = 1
    /\ Echoes[1].err

ReturnedMessagesEchoed ==
    LET m == close_result[1].messages IN
    /\ Len(Echoes) = IF m = None THEN 0 ELSE Len(m[1])
    /\ \A i \in 1..Len(Echoes) : Echoes[i].msg = m[1][i] /\ ~Echoes[i].err

C17_AsClaimed ==
    (BodyFinished /\ close_result # None) =>
        /\ CloseRaised => ClosedQuietly
        /\ ~CloseRaised => ReturnedMessagesEchoed

(***************************************************************************)
(* C17  Close failure is contained for Exception: if close() raises an     *)
(* Exception, it does not reach the caller, one message is echoed, with    *)
(* err=True, and no close message is echoed; an exception outside          *)
(* Exception reaches the caller and nothing is echoed; when close          *)
(* succeeds, every message it returns is echoed, in order                  *)
(***************************************************************************)
C17_CloseFailureContained ==
    (BodyFinished /\ close_result # None) =>
        /\ (CloseRaised /\ IsException(close_result[1].class)) => ClosedQuietly
        /\ (CloseRaised /\ ~IsException(close_result[1].class)) =>
            /\ propagating = Some(Exc("close", close_result[1].class))
            /\ Echoes = <<>>
        /\ ~CloseRaised => ReturnedMessagesEchoed

\* the body returned, close raised an Exception, and the caller got a
\* normal return after the one error message
C17_Witness ==
    /\ opc = "returned"
    /\ body_result # None /\ ~BodyRaised
    /\ CloseRaised /\ close_result[1].class = "Exception"
    /\ propagating = None
    /\ Len(Echoes) = 1
    /\ Echoes[1].err /\ Echoes[1].msg = "Could not close"

(***************************************************************************)
(* C18  Docs sample replacement: replace_samples returns every input line  *)
(* unchanged and in order, except that in a code example whose first line  *)
(* after the opening fence starts with "#" the lines between that header   *)
(* and the closing fence are replaced by the lines of the file the header  *)
(* names; fences and header are kept, and a document without such a header *)
(* comes back unchanged.  A fence line opens an example when an even       *)
(* number of fence lines precede it, and closes one otherwise.             *)
(***************************************************************************)
\* the lines claimed for ls, read from a line that is outside an example
\* ("outside"), first in one ("first"), inside one that is kept ("keep") or
\* inside one that is replaced ("replace")
RECURSIVE ClaimedLines(_, _)
ClaimedLines(ls, mode) ==
    IF ls = <<>> THEN <<>>
    ELSE LET line == Head(ls) IN
         IF startswith(line, TRIPLE_QUOTE)
         THEN <<line>> \o ClaimedLines(Tail(ls), IF mode = "outside" THEN "first" ELSE "outside")
         ELSE IF mode = "first" /\ startswith(line, "#")
         THEN LET filename == strip(SplitSecond(line)) IN
              <<line>>
              \o (IF filename \in DOMAIN ExampleFiles THEN ExampleFiles[filename] ELSE <<>>)
              \o ClaimedLines(Tail(ls), "replace")
         ELSE IF mode = "replace"
         THEN ClaimedLines(Tail(ls), "replace")
         ELSE <<line>> \o ClaimedLines(Tail(ls), IF mode = "first" THEN "keep" ELSE mode)

C18_SampleReplacement ==
    dpc = "returned" => joined = Some(Join(ClaimedLines(lines, "outside")))

(***************************************************************************)
(* C19  Fence pairing: after any prefix of lines processed without an      *)
(* assertion failure, the state is TOP exactly when the number of lines    *)
(* seen so far that start with the fence is even, and START_EXAMPLE lasts  *)
(* for exactly one line, the one after an opening fence                    *)
(***************************************************************************)
FencesSeen == Cardinality({i \in 1..linenum : startswith(lines[i], TRIPLE_QUOTE)})

C19_FencePairing ==
    dpc \in {"run", "returned"} =>
        /\ state = "TOP" <=> FencesSeen % 2 = 0
        /\ \A i \in 1..Len(state_log) :
            state_log[i] = "START_EXAMPLE" =>
                /\ startswith(lines[i], TRIPLE_QUOTE)
                /\ i < Len(state_log) => state_log[i + 1] # "START_EXAMPLE"

====
